---------------------------- MODULE Spec2Model ----------------------------
(***************************************************************************)
(* A model of video_converter.py: MediaInfo's unit normalisation, the      *)
(* parameter derivation and command table of VideoConverter, the per-file  *)
(* pipeline convert_video (skip / transcode / backup / place) over a small *)
(* file system, and BatchConverter.convert_all_videos.                     *)
(*                                                                         *)
(* Conventions.                                                            *)
(*  - A decimal text such as "1.5" is kept as its number of tenths (15);    *)
(*    float(text) is then the rational tenths/10 and int(float(text)) is   *)
(*    tenths \div 10.                                                      *)
(*  - Python floats of the resize computation are exact rationals <<n,d>>. *)
(*  - A directory is the sequence of its components, a file name the       *)
(*    sequence filename.split(".") yields, a path the record of both.      *)
(*  - The external tools are the environment: mediainfo's answer for a     *)
(*    file is fixed by the file (probed, or nothing for a junk file), and  *)
(*    every command run through check_call may fail.                       *)
(***************************************************************************)
EXTENDS Integers, Sequences, FiniteSets, TLC

VARIABLES
  conv,        \* the VideoConverter object: the fields __init__ sets
  probed,      \* what mediainfo prints for a readable video (MediaInfo.info)
  dirs,        \* file system: the directories that exist
  files,       \* file system: existing path -> content
  pc,          \* position in convert_video
  convertcmds, \* the list _get_convert_commands returned
  derived,     \* the locals of _get_convert_commands after clamping
  i,           \* index of the loop over convertcmds (1-based)
  log,         \* the lines the current call logged
  procs,       \* the check_call invocations of the current call
  status,      \* per format of the current call: how its iteration ended
  prev,        \* status of the previous call of convert_video
  run,         \* how many times convert_video was called on this object
  batch,       \* the BatchConverter object, or NoBatch
  walk,        \* the files os.walk found under input_dir (all_files)
  videos,      \* BatchConverter's list of videos
  index,       \* position of the loop over videos (0-based, as enumerate)
  visited,     \* the videos convert_video was called on, in call order
  errors,      \* the videos whose call logged "Error converting"
  bpc,         \* position in convert_all_videos ("none": single-file mode)
  made,        \* transcodes completed so far (names each output's content)
  before       \* files when the current call / format iteration began

vars == <<conv, probed, dirs, files, pc, convertcmds, derived, i, log, procs,
          status, prev, run, batch, walk, videos, index, visited, errors,
          bpc, made, before>>

batchVars == <<batch, walk, videos, index, visited, errors, bpc>>

-----------------------------------------------------------------------------
(* Configuration constants, lines 50-56.                                   *)

VIDEO_WIDTH == 640
VIDEO_HEIGHT == 480
MAX_VIDEO_BITRATE_KBPS == 1024
MAX_AUDIO_BITRATE_KBPS == 56
MAX_AUDIO_SAMPLING == 22050

\* Python's None where an integer is expected (probed values are >= 0).
None == -1

\* main()'s allowed_formats
allowed_formats == {"flv", "ogv", "mp4", "webm"}

-----------------------------------------------------------------------------
(* Bounds of the model.                                                    *)

MaxFormats == 2    \* longest list of requested formats
MaxRuns == 2       \* calls of convert_video on one file
MaxDimK == 12      \* probed widths go up to MaxDimK * (VIDEO_WIDTH / 4) + 1
MaxTenths == 25    \* decimal texts "0.0" .. "2.5" for the Mbps / KHz values
MaxTree == 4       \* files in the directory tree of a batch

-----------------------------------------------------------------------------
(* MediaInfo: raw values and the accessors, lines 79-126.                  *)

\* A raw value of MediaInfo.info: the decimal text (in tenths) and the unit
\* that follows it; Missing is info.get(label) = None.
Missing == [tenths |-> 0, unit |-> "missing"]
Raw(t, u) == [tenths |-> t, unit |-> u]

\* `label in raw_value` on the unit text: "hz" is also found in "khz".
Contains(raw, label) ==
  \/ raw.unit = label
  \/ raw.unit = "khz" /\ label = "hz"

\* int(float(value)) of the stripped text
IntOfFloat(raw) == raw.tenths \div 10

_get_bitrate_in_kbps(raw) ==
  IF raw # Missing
  THEN IF Contains(raw, "kbps") THEN IntOfFloat(raw)
       ELSE IF Contains(raw, "mbps") THEN IntOfFloat(raw) * 1024
       ELSE None
  ELSE None

get_audio_sampling(raw) ==
  IF raw # Missing
  THEN IF Contains(raw, "khz") THEN IntOfFloat(raw) * 1024
       ELSE IF Contains(raw, "hz") THEN IntOfFloat(raw)
       ELSE None
  ELSE None

\* get_width / get_height / get_frames_per_second raise on a missing key
\* (int(None)); Readable says that none of the three does.
Readable(info) ==
  /\ info.video_width # None
  /\ info.video_height # None
  /\ info.video_frame_rate # None

-----------------------------------------------------------------------------
(* Exact rationals for the float arithmetic of lines 269-275.              *)

RECURSIVE Gcd(_, _)
Gcd(a, b) == IF b = 0 THEN a ELSE Gcd(b, a % b)

Norm(n, d) == LET g == Gcd(n, d) IN <<n \div g, d \div g>>
Rat(n) == <<n, 1>>
RDiv(a, b) == Norm(a[1] * b[2], a[2] * b[1])
RMul(a, b) == Norm(a[1] * b[1], a[2] * b[2])
RGt(a, b) == a[1] * b[2] > b[1] * a[2]
RInt(a) == a[1] \div a[2]

-----------------------------------------------------------------------------
(* _get_convert_commands: resize, padscale, clamping, lines 263-292.       *)

\* Resize without the height correction of lines 273-275
ResizeWidthOnly(width, height) ==
  LET max_width == Rat(VIDEO_WIDTH)
      max_height == Rat(VIDEO_HEIGHT)
      w0 == Rat(width)
      h0 == Rat(height)
  IN IF RGt(w0, max_width) \/ RGt(h0, max_height)
     THEN LET aspect_ratio == RDiv(w0, h0)
              w1 == IF RGt(w0, max_width) THEN max_width ELSE w0
              h1 == IF RGt(w0, max_width)
                    THEN RDiv(max_width, aspect_ratio) ELSE h0
          IN [resize_width |-> w1, resize_height |-> h1]
     ELSE [resize_width |-> w0, resize_height |-> h0]

Resize(width, height) ==
  LET max_width == Rat(VIDEO_WIDTH)
      max_height == Rat(VIDEO_HEIGHT)
      w0 == Rat(width)
      h0 == Rat(height)
  IN IF RGt(w0, max_width) \/ RGt(h0, max_height)
     THEN LET aspect_ratio == RDiv(w0, h0)
              w1 == IF RGt(w0, max_width) THEN max_width ELSE w0
              h1 == IF RGt(w0, max_width)
                    THEN RDiv(max_width, aspect_ratio) ELSE h0
              h2 == IF RGt(h1, max_height) THEN max_height ELSE h1
              w2 == IF RGt(h1, max_height)
                    THEN RMul(max_height, aspect_ratio) ELSE w1
          IN [resize_width |-> w2, resize_height |-> h2]
     ELSE [resize_width |-> w0, resize_height |-> h0]

\* the four numbers the "scale=%s:%s,pad=%s:%s:..." text is formatted from
Padscale(rs) ==
  [scale_w |-> RInt(rs.resize_width), scale_h |-> RInt(rs.resize_height),
   pad_w |-> VIDEO_WIDTH, pad_h |-> VIDEO_HEIGHT]

\* Python's `not value` for an int or None
Not(value) == value = None \/ value = 0

\* `if not value or value > maximum: value = maximum`
Clamp(value, maximum) ==
  IF Not(value) \/ value > maximum THEN maximum ELSE value

-----------------------------------------------------------------------------
(* _get_convert_command: the per-format argument list, lines 159-251.      *)
(* Kept: the arguments that differ between formats or carry a parameter.   *)

NoCommand == [vcodec |-> "none", f |-> "none", r |-> 0, bv |-> 0, ac |-> 0,
              ar |-> 0, ab |-> 0, vf |-> Padscale(Resize(1, 1)),
              output |-> "none"]

\* the table with mp4 taking -ar from audio_sampling, as webm and ogv do
ConvertCommandMp4PassThrough(filetype, output, frame_rate, video_bitrate, audio_bitrate, audio_sampling, padscale) ==
  IF filetype = "flv" THEN
    [vcodec |-> "flv", f |-> "flv", r |-> frame_rate, bv |-> video_bitrate,
     ac |-> 1, ar |-> 22050, ab |-> audio_bitrate, vf |-> padscale,
     output |-> output]
  ELSE IF filetype = "mp4" THEN
    [vcodec |-> "libx264", f |-> "mp4", r |-> frame_rate, bv |-> video_bitrate,
     ac |-> 2, ar |-> audio_sampling, ab |-> audio_bitrate, vf |-> padscale,
     output |-> output]
  ELSE IF filetype = "webm" THEN
    [vcodec |-> "libvpx", f |-> "webm", r |-> frame_rate, bv |-> video_bitrate,
     ac |-> 1, ar |-> audio_sampling, ab |-> audio_bitrate, vf |-> padscale,
     output |-> output]
  ELSE IF filetype = "ogv" THEN
    [vcodec |-> "libtheora", f |-> "ogg", r |-> frame_rate, bv |-> video_bitrate,
     ac |-> 1, ar |-> audio_sampling, ab |-> audio_bitrate, vf |-> padscale,
     output |-> output]
  ELSE NoCommand

_get_convert_command(filetype, output, frame_rate, video_bitrate, audio_bitrate, audio_sampling, padscale) ==
  IF filetype = "flv" THEN
    [vcodec |-> "flv", f |-> "flv", r |-> frame_rate, bv |-> video_bitrate,
     ac |-> 1, ar |-> 22050, ab |-> audio_bitrate, vf |-> padscale,
     output |-> output]
  ELSE IF filetype = "mp4" THEN
    [vcodec |-> "libx264", f |-> "mp4", r |-> frame_rate, bv |-> video_bitrate,
     ac |-> 2, ar |-> 22050, ab |-> audio_bitrate, vf |-> padscale,
     output |-> output]
  ELSE IF filetype = "webm" THEN
    [vcodec |-> "libvpx", f |-> "webm", r |-> frame_rate, bv |-> video_bitrate,
     ac |-> 1, ar |-> audio_sampling, ab |-> audio_bitrate, vf |-> padscale,
     output |-> output]
  ELSE IF filetype = "ogv" THEN
    [vcodec |-> "libtheora", f |-> "ogg", r |-> frame_rate, bv |-> video_bitrate,
     ac |-> 1, ar |-> audio_sampling, ab |-> audio_bitrate, vf |-> padscale,
     output |-> output]
  ELSE NoCommand

-----------------------------------------------------------------------------
(* Strings, paths and the file system.                                     *)

\* A text is the sequence of its pieces, so that prefix + vparts[0] is \o;
\* NoText is None or "" (both false in `if self.prefix`).
S(piece) == <<piece>>
NoText == <<>>

Path(dir, name) == [dir |-> dir, name |-> name]
DirPath(dir) == [dir |-> dir, name |-> <<>>]

\* os.path.exists of a file path
Exists(path) == path \in DOMAIN files

Put(f, path, content) ==
  [q \in DOMAIN f \cup {path} |-> IF q = path THEN content ELSE f[q]]
Remove(f, path) == [q \in DOMAIN f \ {path} |-> f[q]]
\* a successful `mv src dst`
Move(f, src, dst) ==
  IF src = dst THEN f ELSE Remove(Put(f, dst, f[src]), src)

\* mkdir -p creates the directory and its missing ancestors
Ancestors(dir) == {SubSeq(dir, 1, n) : n \in 1..Len(dir)}

Content(kind, id) == [kind |-> kind, id |-> id]

-----------------------------------------------------------------------------
(* VideoConverter.__init__, lines 140-153.  NoDir is output_dir = None.    *)

NoDir == <<>>

VideoConverter(video_file, output_dir, prefix, dry_run, exists, backup, formats) ==
  [parent_dir |-> video_file.dir,
   video_file |-> video_file,
   output_dir |-> IF output_dir # NoDir THEN output_dir ELSE video_file.dir,
   prefix |-> prefix,
   dry_run |-> dry_run,
   exists |-> exists,
   backup |-> backup,
   formats |-> formats]

-----------------------------------------------------------------------------
(* VideoConverter: names and paths of convert_video, lines 306-329.        *)

vparts == conv.video_file.name

name == IF conv.prefix # NoText THEN conv.prefix \o vparts[1] ELSE vparts[1]

extname(extension) == <<name, S(extension)>>
tmpname(extension) == <<name, S("tmp"), S(extension)>>

\* the transcoder writing straight to the final path
TmpfileAtFinalPath(extension) == Path(conv.output_dir, extname(extension))

tmpfile(extension) == Path(conv.parent_dir, tmpname(extension))

final_path(extension) == Path(conv.output_dir, extname(extension))

\* the backup path built beside the source instead of in output_dir
FinalBakInParentDir(extension) ==
  Path(conv.parent_dir, extname(extension) \o <<S("bak")>>)

final_bak(extension) ==
  Path(conv.output_dir, extname(extension) \o <<S("bak")>>)

\* _command: check_call runs only when this holds
\* _command without its dry-run gate
ShouldRunAlways == TRUE

ShouldRun == ~conv.dry_run

\* line 325 (computed by the code, used by no step)
extfile(extension) == Path(conv.parent_dir, extname(extension))

\* the skip check testing extfile instead of final_path
SkipExistingExtfile(extension) == conv.exists /\ Exists(extfile(extension))

\* line 332
SkipExisting(extension) == conv.exists /\ Exists(final_path(extension))

\* line 341
NeedsBackup(extension) == Exists(final_path(extension)) /\ conv.backup

-----------------------------------------------------------------------------
(* MediaInfo(original) and the body of _get_convert_commands.              *)

NoInfo ==
  [video_width |-> None, video_height |-> None, video_frame_rate |-> None,
   video_bit_rate |-> Missing, audio_bit_rate |-> Missing,
   audio_sampling_rate |-> Missing]

\* mediainfo prints nothing usable for a missing or junk file
MediaInfo(original) ==
  IF Exists(original) /\ files[original].kind \notin {"junk", "partial"}
  THEN probed ELSE NoInfo

NoDerived ==
  [width |-> 0, height |-> 0, fps |-> 0,
   probed_video_bitrate |-> None, probed_audio_bitrate |-> None,
   probed_audio_sampling |-> None,
   resize_width |-> Rat(0), resize_height |-> Rat(0),
   padscale |-> Padscale(Resize(1, 1)),
   video_bitrate |-> 0, audio_bitrate |-> 0, audio_sampling |-> 0]

Derive(info) ==
  LET rs == Resize(info.video_width, info.video_height)
      vb == _get_bitrate_in_kbps(info.video_bit_rate)
      ab == _get_bitrate_in_kbps(info.audio_bit_rate)
      sr == get_audio_sampling(info.audio_sampling_rate)
  IN [width |-> info.video_width, height |-> info.video_height,
      fps |-> info.video_frame_rate,
      probed_video_bitrate |-> vb, probed_audio_bitrate |-> ab,
      probed_audio_sampling |-> sr,
      resize_width |-> rs.resize_width, resize_height |-> rs.resize_height,
      padscale |-> Padscale(rs),
      video_bitrate |-> Clamp(vb, MAX_VIDEO_BITRATE_KBPS),
      audio_bitrate |-> Clamp(ab, MAX_AUDIO_BITRATE_KBPS),
      audio_sampling |-> Clamp(sr, MAX_AUDIO_SAMPLING)]

\* the command list built in reverse request order
CommandsReversed(d) ==
  [k \in 1..Len(conv.formats) |->
     LET filetype == conv.formats[Len(conv.formats) + 1 - k]
     IN [filetype |-> filetype,
         cmd |-> _get_convert_command(filetype, tmpfile(filetype),
                   d.fps, d.video_bitrate, d.audio_bitrate, d.audio_sampling,
                   d.padscale)]]

\* lines 294-302
Commands(d) ==
  [k \in 1..Len(conv.formats) |->
     [filetype |-> conv.formats[k],
      cmd |-> _get_convert_command(conv.formats[k], tmpfile(conv.formats[k]),
                d.fps, d.video_bitrate, d.audio_bitrate, d.audio_sampling,
                d.padscale)]]

-----------------------------------------------------------------------------
(* Log lines and process records.                                          *)

Line(msg, path) == [msg |-> msg, path |-> path]
ErrorLine == Line("Error converting", conv.video_file)
Proc(cmd, src, dst, ok) == [cmd |-> cmd, src |-> src, dst |-> dst, ok |-> ok]
Result(result, out) == [result |-> result, out |-> out]
NoContent == Content("none", 0)

extension == convertcmds[i].filetype

-----------------------------------------------------------------------------
(* convert_video, lines 304-358: one action per step.  An exception of any *)
(* step is caught at line 357: the error is logged and the call returns.   *)

\* line 306-307: nothing at all happens unless the name has one "."
Begin ==
  /\ pc = "start"
  /\ pc' = IF Len(vparts) = 2 THEN "mkdir" ELSE "done"
  /\ before' = files
  /\ UNCHANGED <<conv, probed, dirs, files, convertcmds, derived, i, log,
                 procs, status, prev, run, made>>
  /\ UNCHANGED batchVars

\* lines 311-313
CreateOutputDir ==
  /\ pc = "mkdir"
  /\ LET creating == Line("Creating output directory", DirPath(conv.output_dir))
         mkdir(ok) == Proc("mkdir", DirPath(conv.output_dir),
                           DirPath(conv.output_dir), ok)
     IN IF conv.output_dir \in dirs
        THEN pc' = "probe" /\ UNCHANGED <<dirs, log, procs>>
        ELSE IF ~ShouldRun
        THEN /\ log' = Append(log, creating)
             /\ pc' = "probe"
             /\ UNCHANGED <<dirs, procs>>
        ELSE \E ok \in BOOLEAN :
             /\ procs' = Append(procs, mkdir(ok))
             /\ dirs' = IF ok THEN dirs \cup Ancestors(conv.output_dir) ELSE dirs
             /\ log' = IF ok THEN Append(log, creating)
                       ELSE Append(log, creating) \o <<ErrorLine>>
             /\ pc' = IF ok THEN "probe" ELSE "done"
  /\ UNCHANGED <<conv, probed, files, convertcmds, derived, i, status, prev,
                 run, made, before>>
  /\ UNCHANGED batchVars

\* line 317: _get_convert_commands(self.video_file, name), lines 253-302
GetConvertCommands ==
  /\ pc = "probe"
  /\ LET info == MediaInfo(conv.video_file)
     IN IF Readable(info)
        THEN /\ derived' = Derive(info)
             /\ convertcmds' = Commands(Derive(info))
             /\ i' = 1
             /\ pc' = "loop"
             /\ log' = log
        ELSE /\ log' = Append(log, ErrorLine)
             /\ pc' = "done"
             /\ UNCHANGED <<derived, convertcmds, i>>
  /\ UNCHANGED <<conv, probed, dirs, files, procs, status, prev, run, made,
                 before>>
  /\ UNCHANGED batchVars

\* lines 318-337: next format, the skip check, the "Conversion" log line
LoopHead ==
  /\ pc = "loop"
  /\ IF i > Len(convertcmds)
     THEN pc' = "done" /\ UNCHANGED <<i, log, status, before>>
     ELSE IF SkipExisting(extension)
     THEN /\ log' = Append(log, Line("Skipping conversion of existing file",
                                     final_path(extension)))
          /\ status' = Append(status, Result("skipped", NoContent))
          /\ i' = i + 1
          /\ pc' = "loop"
          /\ before' = before
     ELSE /\ log' = Append(log, Line("Conversion", convertcmds[i].cmd.output))
          /\ pc' = "convert"
          /\ before' = files
          /\ UNCHANGED <<i, status>>
  /\ UNCHANGED <<conv, probed, dirs, files, convertcmds, derived, procs, prev,
                 run, made>>
  /\ UNCHANGED batchVars

\* line 338: self._command(convertcmd).  ffmpeg reads the original and writes
\* the command's output path; on failure it leaves nothing or a partial file.
Convert ==
  /\ pc = "convert"
  /\ LET out == convertcmds[i].cmd.output
         ffmpeg(ok) == Proc("ffmpeg", conv.video_file, out, ok)
     IN IF ~ShouldRun
        THEN pc' = "backup" /\ UNCHANGED <<files, procs, log, status, made>>
        ELSE \E outcome \in {"ok", "failed", "partial"} :
             /\ procs' = Append(procs, ffmpeg(outcome = "ok"))
             /\ files' = CASE outcome = "ok" ->
                                Put(files, out, Content("out", made + 1))
                           [] outcome = "partial" ->
                                Put(files, out, Content("partial", made + 1))
                           [] OTHER -> files
             /\ made' = IF outcome = "ok" THEN made + 1 ELSE made
             /\ pc' = IF outcome = "ok" THEN "backup" ELSE "done"
             /\ log' = IF outcome = "ok" THEN log ELSE Append(log, ErrorLine)
             /\ status' = IF outcome = "ok" THEN status
                          ELSE Append(status, Result("failed", NoContent))
  /\ UNCHANGED <<conv, probed, dirs, convertcmds, derived, i, prev, run, before>>
  /\ UNCHANGED batchVars

\* lines 341 and 345: which of the backup commands are due
BackupCheck ==
  /\ pc = "backup"
  /\ pc' = IF NeedsBackup(extension)
           THEN IF Exists(final_bak(extension)) THEN "rmbak" ELSE "mvbak"
           ELSE "place"
  /\ UNCHANGED <<conv, probed, dirs, files, convertcmds, derived, i, log,
                 procs, status, prev, run, made, before>>
  /\ UNCHANGED batchVars

\* lines 346-347: rm -f final_bak
RemoveBackup ==
  /\ pc = "rmbak"
  /\ LET removing == Line("Removing backup", final_bak(extension))
         rm(ok) == Proc("rm", final_bak(extension), final_bak(extension), ok)
     IN IF ~ShouldRun
        THEN /\ log' = Append(log, removing)
             /\ pc' = "mvbak"
             /\ UNCHANGED <<files, procs, status>>
        ELSE \E ok \in BOOLEAN :
             /\ procs' = Append(procs, rm(ok))
             /\ files' = IF ok /\ Exists(final_bak(extension))
                         THEN Remove(files, final_bak(extension)) ELSE files
             /\ log' = IF ok THEN Append(log, removing)
                       ELSE Append(log, removing) \o <<ErrorLine>>
             /\ status' = IF ok THEN status
                          ELSE Append(status, Result("failed", NoContent))
             /\ pc' = IF ok THEN "mvbak" ELSE "done"
  /\ UNCHANGED <<conv, probed, dirs, convertcmds, derived, i, prev, run, made,
                 before>>
  /\ UNCHANGED batchVars

\* lines 350-351: mv final_path final_bak
MoveToBackup ==
  /\ pc = "mvbak"
  /\ LET backing == Line("Backup existing", final_path(extension))
         mv(ok) == Proc("mv", final_path(extension), final_bak(extension), ok)
     IN IF ~ShouldRun
        THEN /\ log' = Append(log, backing)
             /\ pc' = "place"
             /\ UNCHANGED <<files, procs, status>>
        ELSE \E ok \in {b \in BOOLEAN : b => Exists(final_path(extension))} :
             /\ procs' = Append(procs, mv(ok))
             /\ files' = IF ok THEN Move(files, final_path(extension),
                                         final_bak(extension))
                         ELSE files
             /\ log' = IF ok THEN Append(log, backing)
                       ELSE Append(log, backing) \o <<ErrorLine>>
             /\ status' = IF ok THEN status
                          ELSE Append(status, Result("failed", NoContent))
             /\ pc' = IF ok THEN "place" ELSE "done"
  /\ UNCHANGED <<conv, probed, dirs, convertcmds, derived, i, prev, run, made,
                 before>>
  /\ UNCHANGED batchVars

\* lines 354-355: mv tmpfile final_path, then the next format
Place ==
  /\ pc = "place"
  /\ LET moving == Line("Moving output", final_path(extension))
         mv(ok) == Proc("mv", tmpfile(extension), final_path(extension), ok)
     IN IF ~ShouldRun
        THEN /\ log' = Append(log, moving)
             /\ status' = Append(status, Result("logged", NoContent))
             /\ i' = i + 1
             /\ pc' = "loop"
             /\ UNCHANGED <<files, procs>>
        ELSE \E ok \in {b \in BOOLEAN : b => Exists(tmpfile(extension))} :
             /\ procs' = Append(procs, mv(ok))
             /\ files' = IF ok THEN Move(files, tmpfile(extension),
                                         final_path(extension))
                         ELSE files
             /\ log' = IF ok THEN Append(log, moving)
                       ELSE Append(log, moving) \o <<ErrorLine>>
             /\ status' = IF ok
                          THEN Append(status,
                                 Result("placed", files[tmpfile(extension)]))
                          ELSE Append(status, Result("failed", NoContent))
             /\ i' = IF ok THEN i + 1 ELSE i
             /\ pc' = IF ok THEN "loop" ELSE "done"
  /\ UNCHANGED <<conv, probed, dirs, convertcmds, derived, prev, run, made,
                 before>>
  /\ UNCHANGED batchVars

\* The same request run again on the same file (main() called once more).
\* Explored for skip-if-exists requests: without the flag a second run is a
\* first run over the outputs and backups Init already lets it find.
Rerun ==
  /\ pc = "done"
  /\ bpc = "none"
  /\ conv.exists
  /\ run < MaxRuns
  /\ run' = run + 1
  /\ prev' = status
  /\ pc' = "start"
  /\ convertcmds' = <<>>
  /\ derived' = NoDerived
  /\ i' = 0
  /\ log' = <<>>
  /\ procs' = <<>>
  /\ status' = <<>>
  /\ UNCHANGED <<conv, probed, dirs, files, made, before>>
  /\ UNCHANGED batchVars

-----------------------------------------------------------------------------
(* Single-file mode: main() builds one VideoConverter and calls it.        *)

Range(seq) == {seq[k] : k \in DOMAIN seq}

\* lists of at most n requested formats over the tags T (repeats allowed:
\* main() appends every allowed tag of the --format list)
FormatLists(T, n) == UNION {[1..m -> T] : m \in 1..n}

PipelineTags == {"flv", "mp4"}

TagId(tag) == CASE tag = "flv" -> 1 [] tag = "mp4" -> 2 [] tag = "webm" -> 3
                [] OTHER -> 4

\* the probe of section 8's scenario: 1280x720, 30 fps, 2 Mbps, 40 Kbps, 48 KHz
SampleInfo ==
  [video_width |-> 2 * VIDEO_WIDTH, video_height |-> 720,
   video_frame_rate |-> 30,
   video_bit_rate |-> Raw(20, "mbps"), audio_bit_rate |-> Raw(400, "kbps"),
   audio_sampling_rate |-> Raw(480, "khz")]

\* where the source is and where the outputs go
Locations ==
  { [file |-> Path(<<"videos">>, <<S("movie"), S("flv")>>), out |-> NoDir,
     prefix |-> NoText, made |-> {}],
    [file |-> Path(<<"videos">>, <<S("movie"), S("flv")>>), out |-> NoDir,
     prefix |-> S("web_"), made |-> {}],
    [file |-> Path(<<"videos">>, <<S("movie"), S("mov")>>), out |-> <<"out">>,
     prefix |-> NoText, made |-> {<<"out">>}],
    [file |-> Path(<<"videos">>, <<S("movie"), S("mov")>>),
     out |-> <<"out", "web">>, prefix |-> NoText, made |-> {}] }

\* a source whose name convert_video ignores
OddNames == { <<S("README")>>, <<S("archive"), S("tar"), S("gz")>> }

\* the outputs and backups an earlier conversion may have left
Leftovers ==
  IF conv.output_dir \in dirs
  THEN {Path(conv.output_dir, <<name, S(t)>>) : t \in Range(conv.formats)}
         \cup {Path(conv.output_dir, <<name, S(t), S("bak")>>) :
                  t \in Range(conv.formats)}
  ELSE {}

OldContent(path) ==
  IF Len(path.name) = 3 THEN Content("oldbak", TagId(path.name[2][1]))
  ELSE Content("old", TagId(path.name[2][1]))

InitCall ==
  /\ convertcmds = <<>>
  /\ derived = NoDerived
  /\ i = 0
  /\ log = <<>>
  /\ procs = <<>>
  /\ status = <<>>
  /\ prev = <<>>
  /\ run = 1
  /\ made = 0

NoBatch ==
  [input_dir |-> NoDir, output_dir |-> NoDir, prefix |-> NoText,
   dry_run |-> FALSE, exists |-> FALSE, backup |-> FALSE, formats |-> <<>>]

InitNoBatch ==
  /\ batch = NoBatch
  /\ walk = {}
  /\ videos = <<>>
  /\ index = 0
  /\ visited = <<>>
  /\ errors = <<>>
  /\ bpc = "none"

Init ==
  /\ \/ \E loc \in Locations, fm \in FormatLists(PipelineTags, MaxFormats),
           d \in BOOLEAN, e \in BOOLEAN, b \in BOOLEAN :
          /\ conv = VideoConverter(loc.file, loc.out, loc.prefix, d, e, b, fm)
          /\ dirs = {loc.file.dir} \cup loc.made
     \/ \E odd \in OddNames, d \in BOOLEAN :
          /\ conv = VideoConverter(Path(<<"videos">>, odd), NoDir, NoText, d,
                                   FALSE, TRUE, <<"flv">>)
          /\ dirs = {<<"videos">>}
  /\ probed = SampleInfo
  /\ \E kind \in {"vid", "junk"}, left \in SUBSET Leftovers :
       files = Put([q \in left |-> OldContent(q)], conv.video_file,
                   Content(kind, 0))
  /\ before = files
  /\ pc = "start"
  /\ InitCall
  /\ InitNoBatch

Next ==
  \/ Begin
  \/ CreateOutputDir
  \/ GetConvertCommands
  \/ LoopHead
  \/ Convert
  \/ BackupCheck
  \/ RemoveBackup
  \/ MoveToBackup
  \/ Place
  \/ Rerun

Spec == Init /\ [][Next]_vars

TypeOK ==
  /\ pc \in {"start", "mkdir", "probe", "loop", "convert", "backup", "rmbak",
             "mvbak", "place", "done", "idle"}
  /\ i \in 0..(Len(conv.formats) + 1)
  /\ run \in 1..MaxRuns

-----------------------------------------------------------------------------
(* BatchConverter.convert_all_videos, lines 379-412.                       *)

\* the characters of a piece of text, as their codes (ord)
Ord(piece) ==
  CASE piece = "in" -> <<105, 110>>
    [] piece = "out" -> <<111, 117, 116>>
    [] piece = "a" -> <<97>>
    [] piece = "b" -> <<98>>
    [] piece = "z" -> <<122>>
    [] piece = "README" -> <<82, 69, 65, 68, 77, 69>>
    [] piece = "mov" -> <<109, 111, 118>>
    [] piece = "flv" -> <<102, 108, 118>>
    [] piece = "tar" -> <<116, 97, 114>>
    [] piece = "gz" -> <<103, 122>>
    [] piece = "bak" -> <<98, 97, 107>>
    [] piece = "tmp" -> <<116, 109, 112>>
    [] OTHER -> <<63>>

RECURSIVE Flatten(_, _)
\* the texts of seq, each preceded by the separator's code
Flatten(seq, sep) ==
  IF seq = <<>> THEN <<>>
  ELSE <<sep>> \o Ord(seq[1]) \o Flatten(Tail(seq), sep)

RECURSIVE JoinPieces(_)
JoinPieces(text) ==
  IF text = <<>> THEN <<>> ELSE Ord(text[1]) \o JoinPieces(Tail(text))

RECURSIVE JoinName(_)
\* ".".join of the parts of a file name
JoinName(parts) ==
  IF parts = <<>> THEN <<>>
  ELSE IF Len(parts) = 1 THEN JoinPieces(parts[1])
  ELSE JoinPieces(parts[1]) \o <<46>> \o JoinName(Tail(parts))

\* os.path.join(parent_dir, filename) as character codes: "/in/a/z.mov"
PathText(path) == Flatten(path.dir, 47) \o <<47>> \o JoinName(path.name)

RECURSIVE LexLess(_, _)
\* s < t for Python strings
LexLess(s, t) ==
  IF t = <<>> THEN FALSE
  ELSE IF s = <<>> THEN TRUE
  ELSE IF s[1] # t[1] THEN s[1] < t[1]
  ELSE LexLess(Tail(s), Tail(t))

PathLess(p, q) == LexLess(PathText(p), PathText(q))

RECURSIVE Insert(_, _)
Insert(sorted, p) ==
  IF sorted = <<>> THEN <<p>>
  ELSE IF PathLess(p, sorted[1]) THEN <<p>> \o sorted
  ELSE <<sorted[1]>> \o Insert(Tail(sorted), p)

\* the videos left in walk order
VideosUnsorted(found) == found

RECURSIVE SortVideos(_)
\* videos.sort(), line 394
SortVideos(found) ==
  IF found = <<>> THEN <<>>
  ELSE Insert(SortVideos(SubSeq(found, 1, Len(found) - 1)), found[Len(found)])

\* lines 388-389: fparts = filename.split("."); len(fparts) == 2
IsVideo(filename) == Len(filename) = 2

RECURSIVE Select(_)
\* lines 385-391: the listing filtered, in listing order
Select(listing) ==
  IF listing = <<>> THEN <<>>
  ELSE IF IsVideo(listing[1].name)
       THEN <<listing[1]>> \o Select(Tail(listing))
       ELSE Select(Tail(listing))

\* lines 401-404: the output directory that mirrors the video's directory
FinalDir(video) ==
  IF batch.output_dir # NoDir
  THEN batch.output_dir
         \o SubSeq(video.dir, Len(batch.input_dir) + 1, Len(video.dir))
  ELSE NoDir

Under(root) ==
  {q \in DOMAIN files :
     /\ Len(q.dir) >= Len(root)
     /\ SubSeq(q.dir, 1, Len(root)) = root}

Orders(set) ==
  {f \in [1..Cardinality(set) -> set] :
     \A m, n \in 1..Cardinality(set) : m # n => f[m] # f[n]}

\* the orders in which os.walk can yield the files: top-down by directory,
\* the files of one directory in any order
Listings(root) ==
  {top \o below :
     top \in Orders({q \in Under(root) : q.dir = root}),
     below \in Orders({q \in Under(root) : q.dir # root})}

\* lines 382-397: walk, filter, sort
Discover ==
  /\ bpc = "walk"
  /\ walk' = Under(batch.input_dir)
  /\ \E listing \in Listings(batch.input_dir) :
       videos' = SortVideos(Select(listing))
  /\ index' = 0
  /\ bpc' = "loop"
  /\ UNCHANGED <<conv, probed, dirs, files, pc, convertcmds, derived, i, log,
                 procs, status, prev, run, made, before, batch, visited,
                 errors>>

\* lines 398-411: the next video gets its VideoConverter, which is called
StartVideo ==
  /\ bpc = "loop"
  /\ index < Len(videos)
  /\ LET video == videos[index + 1]
     IN /\ conv' = VideoConverter(video, FinalDir(video), batch.prefix,
                                  batch.dry_run, batch.exists, batch.backup,
                                  batch.formats)
        /\ visited' = Append(visited, video)
  /\ pc' = "start"
  /\ convertcmds' = <<>>
  /\ derived' = NoDerived
  /\ i' = 0
  /\ log' = <<>>
  /\ procs' = <<>>
  /\ status' = <<>>
  /\ bpc' = "converting"
  /\ UNCHANGED <<probed, dirs, files, prev, run, made, before, batch, walk,
                 videos, index, errors>>

\* line 412: convert_video has returned, on to the next index
FinishVideo ==
  /\ bpc = "converting"
  /\ pc = "done"
  /\ errors' = IF log # <<>> /\ log[Len(log)] = ErrorLine
               THEN Append(errors, conv.video_file) ELSE errors
  /\ index' = index + 1
  /\ bpc' = "loop"
  /\ UNCHANGED <<conv, probed, dirs, files, pc, convertcmds, derived, i, log,
                 procs, status, prev, run, made, before, batch, walk, videos,
                 visited>>

\* the loop over videos is exhausted
Return ==
  /\ bpc = "loop"
  /\ index = Len(videos)
  /\ bpc' = "done"
  /\ UNCHANGED <<conv, probed, dirs, files, pc, convertcmds, derived, i, log,
                 procs, status, prev, run, made, before, batch, walk, videos,
                 index, visited, errors>>

-----------------------------------------------------------------------------
(* Vocabulary of the properties: the paths as the specification names      *)
(* them, and what the log and the process list show.                       *)

Last(seq) == seq[Len(seq)]
Requested == Range(conv.formats)

FinalOf(tag) == Path(conv.output_dir, <<name, S(tag)>>)
BakOf(tag) == Path(conv.output_dir, <<name, S(tag), S("bak")>>)
TmpOf(tag) == Path(conv.parent_dir, <<name, S("tmp"), S(tag)>>)

\* path holds the same file (or no file) in f and in g
Same(f, g, path) ==
  /\ path \in DOMAIN f <=> path \in DOMAIN g
  /\ path \in DOMAIN f => f[path] = g[path]

Held(f) == {f[q] : q \in DOMAIN f}

Count(seq, Test(_)) == Cardinality({k \in DOMAIN seq : Test(seq[k])})

IsConversion(line) == line.msg = "Conversion"
IsSkip(line) == line.msg = "Skipping conversion of existing file"
IsAttempt(line) == IsConversion(line) \/ IsSkip(line)
NotSkipped(result) == result.result # "skipped"

\* the format tags the log shows were taken up, in log order
RECURSIVE Attempted(_)
Attempted(lines) ==
  IF lines = <<>> THEN <<>>
  ELSE LET line == Last(lines)
           rest == Attempted(SubSeq(lines, 1, Len(lines) - 1))
       IN IF IsAttempt(line)
          THEN Append(rest, line.path.name[Len(line.path.name)][1])
          ELSE rest

Failed == log # <<>> /\ Last(log) = ErrorLine
Completed(st) ==
  /\ Len(st) = Len(conv.formats)
  /\ \A k \in DOMAIN st : st[k].result \in {"skipped", "placed"}
AllSkipped(st) ==
  /\ Len(st) = Len(conv.formats)
  /\ \A k \in DOMAIN st : st[k].result = "skipped"

InIteration == pc \in {"convert", "backup", "rmbak", "mvbak", "place"}

-----------------------------------------------------------------------------
(* Properties of convert_video (specification Spec).                       *)

\* C1 -- Idempotence of skip-if-exists: in a later run with exists set and
\* dry_run clear, after a run that completed every requested format (each
\* placed or skipped), no step changes a file or a directory, no command is
\* executed, and the run ends with every requested format skipped.
C1_SkipIdempotent ==
  [][(run > 1 /\ conv.exists /\ ~conv.dry_run /\ Completed(prev))
       => /\ files' = files
          /\ dirs' = dirs
          /\ procs' = <<>>
          /\ (pc' = "done" /\ run' = run) => AllSkipped(status')]_vars

C1_Witness ==
  /\ run = 2 /\ pc = "done" /\ conv.exists /\ ~conv.dry_run
  /\ Completed(prev) /\ AllSkipped(status)
  /\ Len(conv.formats) = 2
  /\ \E k \in DOMAIN prev : prev[k].result = "placed"

\* C3 -- Dry-run has no side effects: with dry_run set no step changes a
\* file or a directory and no command is ever executed, whatever the exists
\* and backup flags, the formats and the file system; and when the call
\* ends, every command that was built belongs to a format that was skipped
\* or has its "Conversion" line in the log, one line per format not skipped.
C3_DryRunNoEffect ==
  [][conv.dry_run
       => /\ files' = files
          /\ dirs' = dirs
          /\ procs' = <<>>
          /\ pc' = "done" =>
               /\ Len(status') = Len(convertcmds')
               /\ \A k \in DOMAIN convertcmds' :
                    \/ status'[k].result = "skipped"
                    \/ \E l \in DOMAIN log' :
                         log'[l] = Line("Conversion", TmpOf(conv.formats[k]))
               /\ Count(log', IsConversion) = Count(status', NotSkipped)]_vars

C3_Witness ==
  /\ conv.dry_run /\ pc = "done" /\ Len(convertcmds) = 2
  /\ Count(log, IsConversion) = 2
  /\ \E l \in DOMAIN log : log[l].msg = "Removing backup"
  /\ files = before /\ procs = <<>>

\* C2 -- Backup rotation: with backup set, exists and dry_run clear, when the
\* final move of a format succeeds and the final file F (content A) and its
\* backup F.bak (content B) both existed when that format's conversion began:
\* no file holds B any more, F.bak holds A, F holds the output the transcode
\* just made, F has exactly one backup file, and the commands of the
\* conversion ran in the order transcode, rm F.bak, mv F F.bak, mv tmp F.
C2_BackupRotation ==
  [][(/\ pc = "place" /\ pc' = "loop"
      /\ conv.backup /\ ~conv.exists /\ ~conv.dry_run
      /\ FinalOf(extension) \in DOMAIN before
      /\ BakOf(extension) \in DOMAIN before)
       => LET F == FinalOf(extension)
              K == BakOf(extension)
              A == before[F]
              B == before[K]
              n == Len(procs')
          IN /\ B \notin Held(files')
             /\ K \in DOMAIN files' /\ files'[K] = A
             /\ F \in DOMAIN files' /\ files'[F] = Content("out", made)
             /\ files'[F] \notin Held(before)
             /\ {q \in DOMAIN files' :
                   /\ q.dir = F.dir
                   /\ Len(q.name) > Len(F.name)
                   /\ SubSeq(q.name, 1, Len(F.name)) = F.name} = {K}
             /\ n >= 4
             /\ procs'[n - 3] = Proc("ffmpeg", conv.video_file,
                                     TmpOf(extension), TRUE)
             /\ procs'[n - 2] = Proc("rm", K, K, TRUE)
             /\ procs'[n - 1] = Proc("mv", F, K, TRUE)
             /\ procs'[n] = Proc("mv", TmpOf(extension), F, TRUE)]_vars

C2_Witness ==
  /\ pc = "loop" /\ i > 1 /\ run = 1
  /\ conv.backup /\ ~conv.exists /\ ~conv.dry_run
  /\ Len(status) = i - 1 /\ Last(status).result = "placed"
  /\ Len(procs) >= 4
  /\ procs[Len(procs) - 2].cmd = "rm"
  /\ BakOf(conv.formats[i - 1]) \in DOMAIN files
  /\ files[BakOf(conv.formats[i - 1])].kind = "old"
  /\ files[FinalOf(conv.formats[i - 1])].kind = "out"
  /\ \A q \in DOMAIN files : files[q] # Content("oldbak", TagId(conv.formats[i - 1]))

\* C4 -- No partial output on failure: a file appears or changes at a final
\* path only by the final move of that path's format, made after that
\* format's transcode returned successfully, and what it puts there is the
\* finished output; a step of the probe or of the transcode that fails
\* leaves every requested format's final file and .bak file as they were
\* when the step's conversion (or, for the probe, the call) began; and the
\* transcoder writes nothing but name.tmp.<fmt> in the source's directory.
C4_NoPartialOutput ==
  [][/\ \A t \in Requested :
          LET F == FinalOf(t)
          IN (F \in DOMAIN files' /\ ~Same(files', files, F))
               => /\ pc = "place"
                  /\ t = extension
                  /\ procs # <<>>
                  /\ \E j \in DOMAIN procs :
                       /\ procs[j] = Proc("ffmpeg", conv.video_file,
                                          TmpOf(t), TRUE)
                       /\ \A m \in (j + 1)..Len(procs) :
                            procs[m].cmd # "ffmpeg"
                  /\ files'[F] = files[TmpOf(t)]
                  /\ files'[F].kind = "out"
     /\ (pc \in {"probe", "convert"} /\ pc' = "done")
          => \A t \in Requested :
               /\ Same(files', before, FinalOf(t))
               /\ Same(files', before, BakOf(t))
     /\ pc = "convert"
          => /\ \A q \in (DOMAIN files \cup DOMAIN files') \ {TmpOf(extension)} :
                  Same(files', files, q)
             /\ procs' # procs =>
                  /\ Last(procs').cmd = "ffmpeg"
                  /\ Last(procs').dst = TmpOf(extension)]_vars

C4_Witness ==
  /\ pc = "done" /\ Failed /\ status # <<>>
  /\ Last(status).result = "failed"
  /\ Last(procs) = Proc("ffmpeg", conv.video_file,
                        TmpOf(conv.formats[Len(status)]), FALSE)
  /\ LET t == conv.formats[Len(status)]
     IN /\ FinalOf(t) \in DOMAIN files /\ files[FinalOf(t)].kind = "old"
        /\ BakOf(t) \in DOMAIN files /\ files[BakOf(t)].kind = "oldbak"
        /\ TmpOf(t) \in DOMAIN files /\ files[TmpOf(t)].kind = "partial"

\* how a step may follow a step inside one format's iteration
StepsInOrder ==
  /\ pc = "convert" => pc' \in {"backup", "done"}
  /\ pc = "backup" => pc' \in {"rmbak", "mvbak", "place"}
  /\ pc = "rmbak" => pc' \in {"mvbak", "done"}
  /\ pc = "mvbak" => pc' \in {"place", "done"}
  /\ pc = "place" => pc' \in {"loop", "done"}
  /\ (i' # i /\ pc \in {"loop", "place"}) => i' = i + 1 /\ pc' = "loop"
  /\ i' # i => pc \in {"loop", "place", "probe", "done"}

\* the formats are taken up in request order, one at a time, each once
RequestOrder ==
  /\ Len(Attempted(log)) <= Len(conv.formats)
  /\ Attempted(log) = SubSeq(conv.formats, 1, Len(Attempted(log)))
  /\ Len(Attempted(log)) = Len(status) + (IF InIteration THEN 1 ELSE 0)
  /\ Count(log, IsConversion) <=
       Count(status, NotSkipped) + (IF InIteration THEN 1 ELSE 0)

\* after a failure: the call has returned, the failing format was the last
\* one taken up
FailureStops ==
  Failed => /\ pc = "done"
            /\ status # <<>> => /\ Last(status).result = "failed"
                                /\ Len(Attempted(log)) = Len(status)
                                /\ \A j \in 1..(Len(status) - 1) :
                                     status[j].result # "failed"

\* the output the j-th format placed is still at its final path
StillPlaced(j) ==
  /\ FinalOf(conv.formats[j]) \in DOMAIN files
  /\ files[FinalOf(conv.formats[j])] = status[j].out

-----------------------------------------------------------------------------
(* The parameter derivation on its own (specification SpecParams): one     *)
(* call of convert_video up to the return of _get_convert_commands, for    *)
(* all four formats, over a range of probes.                               *)

Widths == {w \in {k * (VIDEO_WIDTH \div 4) + d : k \in 0..MaxDimK, d \in -1..1} :
             w > 0}
Heights == {h \in {k * (VIDEO_HEIGHT \div 4) + d : k \in 0..MaxDimK, d \in -1..1} :
              h > 0}

\* bit rates: none, whole and fractional Kbps around both caps, Mbps texts
\* "0.0" .. MaxTenths/10, and a unit the accessor does not know
RawRates ==
  {Missing}
    \cup {Raw(t, "kbps") : t \in {0, 10, 405, 550, 560, 570, 10230, 10240,
                                 10250, 20000}}
    \cup {Raw(t, "mbps") : t \in 0..MaxTenths}
    \cup {Raw(t, "bps") : t \in {0, 5000}}

\* sampling rates: none, Hz around the cap, KHz texts, an unknown unit
RawSamplings ==
  {Missing}
    \cup {Raw(t, "hz") : t \in {0, 80000, 220500, 220510, 441000, 480000}}
    \cup {Raw(t, "khz") : t \in (0..MaxTenths) \cup {80, 160, 215, 220, 441, 480}}
    \cup {Raw(t, "mhz") : t \in {0, 10}}

ProbeInputs ==
  {[SampleInfo EXCEPT !.video_width = w, !.video_height = h] :
     w \in Widths, h \in Heights}
    \cup {[SampleInfo EXCEPT !.video_bit_rate = r] : r \in RawRates}
    \cup {[SampleInfo EXCEPT !.audio_bit_rate = r] : r \in RawRates}
    \cup {[SampleInfo EXCEPT !.audio_sampling_rate = r] : r \in RawSamplings}

InitParams ==
  /\ conv = VideoConverter(Path(<<"videos">>, <<S("movie"), S("mov")>>), NoDir,
                           NoText, TRUE, FALSE, FALSE,
                           <<"flv", "mp4", "webm", "ogv">>)
  /\ dirs = {<<"videos">>}
  /\ probed \in ProbeInputs
  /\ files = Put(<<>>, conv.video_file, Content("vid", 0))
  /\ before = files
  /\ pc = "start"
  /\ InitCall
  /\ InitNoBatch

NextParams ==
  \/ Begin
  \/ CreateOutputDir
  \/ GetConvertCommands

SpecParams == InitParams /\ [][NextParams]_vars

\* _get_convert_commands has returned
Derived == pc = "loop"

\* C6 -- Resize bound: for probed dimensions w, h > 0, if w <= 640 and
\* h <= 480 the resize dimensions are (w, h) unchanged; otherwise the resize
\* width is at most 640 and the resize height at most 480, their ratio
\* before truncation is w:h; and the pad target is always 640x480.
C6_ResizeBound ==
  Derived =>
    LET w == derived.width
        h == derived.height
        rw == derived.resize_width
        rh == derived.resize_height
    IN /\ (w <= 640 /\ h <= 480) => (rw = <<w, 1>> /\ rh = <<h, 1>>)
       /\ ~(w <= 640 /\ h <= 480) =>
            /\ rw[1] <= 640 * rw[2]
            /\ rh[1] <= 480 * rh[2]
            /\ RDiv(rw, rh) = Norm(w, h)
            /\ derived.padscale.scale_w <= 640
            /\ derived.padscale.scale_h <= 480
       /\ derived.padscale.pad_w = 640
       /\ derived.padscale.pad_h = 480
       /\ \A k \in DOMAIN convertcmds :
            convertcmds[k].cmd.vf = derived.padscale

C6_Witness ==
  /\ Derived
  /\ derived.width <= 640 /\ derived.height > 480
  /\ derived.resize_height = <<480, 1>>
  /\ derived.resize_width[1] < 640 * derived.resize_width[2]
  /\ derived.resize_width[2] > 1

\* the probed value and the derived value of the three clamped parameters
Clamped ==
  {<<derived.probed_video_bitrate, derived.video_bitrate, 1024>>,
   <<derived.probed_audio_bitrate, derived.audio_bitrate, 56>>,
   <<derived.probed_audio_sampling, derived.audio_sampling, 22050>>}

\* C7 -- Clamping: the derived video bit rate, audio bit rate and sampling
\* rate never exceed 1024, 56 and 22050; an absent probed value gives the
\* maximum; a probed value that is present and not above the maximum is
\* kept as it is.
C7_Clamping ==
  Derived =>
    \A c \in Clamped :
      /\ c[2] <= c[3]
      /\ c[1] = None => c[2] = c[3]
      /\ (c[1] # None /\ c[1] <= c[3]) => c[2] = c[1]

\* the raw value and the accessor's result of the three normalised rates
Normalised ==
  {<<probed.video_bit_rate, derived.probed_video_bitrate, "mbps", "kbps">>,
   <<probed.audio_bit_rate, derived.probed_audio_bitrate, "mbps", "kbps">>,
   <<probed.audio_sampling_rate, derived.probed_audio_sampling, "khz", "hz">>}

\* C9 -- Unit normalisation: "<x> mbps" gives trunc(x * 1024), "<x> khz"
\* gives trunc(x * 1024), "<n> kbps" and "<n> hz" give the integer n, and a
\* value with none of these units gives no value.
C9_UnitNormalization ==
  Derived =>
    \A n \in Normalised :
      LET raw == n[1]
          value == n[2]
      IN /\ raw.unit = n[3] => value = (raw.tenths * 1024) \div 10
         /\ (raw.unit = n[4] /\ raw.tenths % 10 = 0) => value = raw.tenths \div 10
         /\ raw.unit \notin {n[3], n[4]} => value = None

CommandOf(tag) ==
  convertcmds[CHOOSE k \in DOMAIN convertcmds : convertcmds[k].filetype = tag].cmd

\* C10 as stated -- Audio profile per format: the command of each of flv,
\* mp4, webm, ogv either forces mono at the fixed rate 22050, or passes the
\* derived sampling rate through as -ar and uses stereo.
C10_AsStated ==
  Derived =>
    \A tag \in allowed_formats :
      \/ CommandOf(tag).ac = 1 /\ CommandOf(tag).ar = 22050
      \/ CommandOf(tag).ac = 2 /\ CommandOf(tag).ar = derived.audio_sampling

\* C10 as amended -- flv forces mono (-ac 1) at the fixed rate 22050; mp4
\* uses stereo (-ac 2) at the fixed rate 22050; webm and ogv pass the derived
\* sampling rate through as -ar and use mono (-ac 1).
C10_AudioProfile ==
  Derived =>
    /\ CommandOf("flv").ac = 1 /\ CommandOf("flv").ar = 22050
    /\ CommandOf("mp4").ac = 2 /\ CommandOf("mp4").ar = 22050
    /\ \A tag \in {"webm", "ogv"} :
         CommandOf(tag).ac = 1 /\ CommandOf(tag).ar = derived.audio_sampling

C10_Witness ==
  /\ Derived
  /\ derived.audio_sampling = 8000
  /\ CommandOf("webm").ar = 8000 /\ CommandOf("webm").ac = 1
  /\ CommandOf("mp4").ar = 22050 /\ CommandOf("mp4").ac = 2

-----------------------------------------------------------------------------
(* Batch mode (specification SpecBatch): main() builds a BatchConverter    *)
(* over a directory tree and calls convert_all_videos.                     *)

TreeFiles ==
  { Path(<<"in">>, <<S("b"), S("mov")>>),
    Path(<<"in">>, <<S("a"), S("flv")>>),
    Path(<<"in">>, <<S("a"), S("flv"), S("bak")>>),
    Path(<<"in">>, <<S("README")>>),
    Path(<<"in">>, <<S("a"), S("tar"), S("gz")>>),
    Path(<<"in", "a">>, <<S("z"), S("mov")>>) }

Trees == {t \in SUBSET TreeFiles : Cardinality(t) <= MaxTree}

NoConv ==
  VideoConverter(Path(NoDir, <<NoText>>), NoDir, NoText, FALSE, FALSE, FALSE,
                 <<>>)

InitBatch ==
  /\ \E out \in {NoDir, <<"out">>}, d \in BOOLEAN, e \in BOOLEAN :
       batch = [input_dir |-> <<"in">>, output_dir |-> out, prefix |-> NoText,
                dry_run |-> d, exists |-> e, backup |-> ~e,
                formats |-> <<"flv">>]
  /\ \E tree \in Trees, kind \in {"vid", "junk"} :
       /\ files = [q \in tree |->
                     IF q.name = <<S("b"), S("mov")>> THEN Content(kind, 0)
                     ELSE IF Len(q.name) = 2 THEN Content("vid", 0)
                     ELSE Content("other", 0)]
       /\ dirs = {<<"in">>} \cup {q.dir : q \in tree}
  /\ probed = SampleInfo
  /\ conv = NoConv
  /\ before = files
  /\ InitCall
  /\ pc = "idle"
  /\ walk = {}
  /\ videos = <<>>
  /\ index = 0
  /\ visited = <<>>
  /\ errors = <<>>
  /\ bpc = "walk"

NextBatch ==
  \/ Discover
  \/ StartVideo
  \/ Begin
  \/ CreateOutputDir
  \/ GetConvertCommands
  \/ LoopHead
  \/ Convert
  \/ BackupCheck
  \/ RemoveBackup
  \/ MoveToBackup
  \/ Place
  \/ FinishVideo
  \/ Return

SpecBatch == InitBatch /\ [][NextBatch]_vars

\* the files with exactly one "." in the name that the walk found
OneDot == {q \in walk : Len(q.name) = 2}

=============================================================================
